---- MODULE Spec2Model ----
(***************************************************************************)
(* Model of mac_mail_backup.converter.MboxConverter: decoding of emlx      *)
(* containers, synthesis of the mbox envelope line, From-line escaping     *)
(* the discovery of containers, the per-folder conversion loop and the     *)
(* per-account pass over the mailbox folders.                              *)
(*                                                                         *)
(* Bytes are modelled as strings: an ASCII byte is the one-character       *)
(* string of that character, "x80" is the byte 0x80 (not ASCII, not valid  *)
(* UTF-8 on its own) and "xEF" "xBF" "xBD" are the UTF-8 encoding of       *)
(* U+FFFD, which is written "uFFFD" as a character of a decoded str.       *)
(* bytes and str values are sequences of these.                            *)
(***************************************************************************)
EXTENDS Integers, Sequences, FiniteSets, TLC

VARIABLES
    raw,        \* parse_emlx: the container handed to it
    parsed,     \* parse_emlx: its return value, or Pending
    msg,        \* get_from_line / escape_from_lines: the message bytes
    hdr,        \* the header fields msg was built from (history)
    now,        \* datetime.now() at the time of the call
    from_line,  \* get_from_line: its return value, or Pending
    escaped,    \* escape_from_lines: its return value, or Pending
    tree,       \* convert_folder: the entries beneath source_dir
    emlx_files, \* convert_folder: the paths find_emlx_files returned
    files,      \* convert_folder: the containers at emlx_files, in that order
    pc,         \* convert_folder: position in the function
    idx,        \* convert_folder: index of the next emlx_path of the loop
    mbox,       \* convert_folder: the file at mbox_path
    count,      \* convert_folder: the local count
    written,    \* convert_folder: what each iteration wrote (history)
    first_run,  \* the file at mbox_path after an earlier call (history)
    source,       \* convert_account: the entries beneath source_dir
    mbox_folders, \* convert_account: the .mbox directories, in os.walk order
    output_dir,   \* convert_account: the files of output_dir, by name
    email_counts, \* convert_account: the dict it returns
    apc,          \* convert_account: position in the function
    fidx,         \* convert_account: index of the folder of the loop
    clean_name,   \* convert_account: the name derived for that folder
    results       \* convert_account: what each folder gave (history)

parseVars == <<raw, parsed>>
messageVars == <<msg, hdr, from_line, escaped>>
folderVars == <<tree, emlx_files, files, pc, idx, mbox, count, written, first_run>>

accountVars == <<source, mbox_folders, output_dir, email_counts, apc, fidx,
                 clean_name, results>>

vars == <<raw, parsed, msg, hdr, now, from_line, escaped,
          tree, emlx_files, files, pc, idx, mbox, count, written, first_run,
          source, mbox_folders, output_dir, email_counts, apc, fidx,
          clean_name, results>>

----------------------------------------------------------------------------
(* Values shared by the operations *)

\* Python's None / a returned value.
None == [some |-> FALSE, val |-> <<>>]
Some(v) == [some |-> TRUE, val |-> v]

\* A call that has not returned yet.
Pending == [some |-> FALSE, val |-> <<"pending">>]

\* A container on disk: its bytes, or a file open() cannot read.
Readable(bytes) == [readable |-> TRUE, data |-> bytes]
Unreadable == [readable |-> FALSE, data |-> <<>>]

NL == "\n"
CR == "\r"
TAB == "\t"

\* str.strip() / re \s / str.split() whitespace among the modelled characters.
Whitespace == {" ", TAB, NL, CR}

Digits == <<"0", "1", "2", "3", "4", "5", "6", "7", "8", "9">>
DigitChars == {Digits[i] : i \in 1..10}
DigitVal(c) == (CHOOSE i \in 1..10 : Digits[i] = c) - 1

Min(a, b) == IF a < b THEN a ELSE b
Max(a, b) == IF a > b THEN a ELSE b

\* s[a:b] of Python: negative indices count from the end, both are clamped.
PySlice(s, a, b) ==
    LET n  == Len(s)
        a1 == IF a < 0 THEN Max(a + n, 0) ELSE Min(a, n)
        b1 == IF b < 0 THEN Max(b + n, 0) ELSE Min(b, n)
    IN  IF a1 < b1 THEN SubSeq(s, a1 + 1, b1) ELSE <<>>

\* bytes.find(b): 0-based index of the first occurrence from 0-based start, or -1.
Find(s, b, start) ==
    LET hits == {i \in (start + 1)..Len(s) : s[i] = b}
    IN  IF hits = {} THEN -1
        ELSE (CHOOSE i \in hits : \A j \in hits : i <= j) - 1

\* str.strip(): leading and trailing whitespace removed.
Strip(s) ==
    LET keep == {i \in 1..Len(s) : s[i] \notin Whitespace}
    IN  IF keep = {} THEN <<>>
        ELSE LET lo == CHOOSE i \in keep : \A j \in keep : i <= j
                 hi == CHOOSE i \in keep : \A j \in keep : i >= j
             IN  SubSeq(s, lo, hi)

\* s.startswith(p)
StartsWith(s, p) == Len(s) >= Len(p) /\ SubSeq(s, 1, Len(p)) = p

\* s.endswith(p)
EndsWith(s, p) ==
    Len(s) >= Len(p) /\ SubSeq(s, Len(s) - Len(p) + 1, Len(s)) = p

----------------------------------------------------------------------------
(* parse_emlx *)

\* bytes.decode('ascii') succeeds iff every byte is below 0x80.
IsAscii(b) == \A i \in 1..Len(b) : b[i] # "x80"

\* The value of a run of decimal digits.
RECURSIVE DecimalValue(_)
DecimalValue(ds) ==
    IF ds = <<>> THEN 0
    ELSE 10 * DecimalValue(SubSeq(ds, 1, Len(ds) - 1)) + DigitVal(ds[Len(ds)])

\* int(s) for a str s: surrounding whitespace is ignored, then an optional
\* sign, then decimal digits that single underscores may separate.
\* ok = FALSE stands for ValueError.
IntOfStr(s) ==
    LET t      == Strip(s)
        signed == t # <<>> /\ t[1] \in {"+", "-"}
        body   == IF signed THEN Tail(t) ELSE t
        wellformed ==
            /\ body # <<>>
            /\ \A i \in 1..Len(body) : body[i] \in DigitChars \cup {"_"}
            /\ body[1] # "_" /\ body[Len(body)] # "_"
            /\ \A i \in 1..(Len(body) - 1) : ~(body[i] = "_" /\ body[i + 1] = "_")
        mag    == DecimalValue(SelectSeq(body, LAMBDA c : c \in DigitChars))
    IN  IF ~wellformed THEN [ok |-> FALSE, val |-> 0]
        ELSE [ok |-> TRUE, val |-> IF signed /\ t[1] = "-" THEN 0 - mag ELSE mag]

\* A fallback that keeps one byte too few.
ByteCountShortFallback(content, first_newline) ==
    LET line == SubSeq(content, 1, first_newline)
        n    == IF IsAscii(line) THEN IntOfStr(line) ELSE [ok |-> FALSE, val |-> 0]
    IN  IF n.ok THEN n.val ELSE Len(content) - first_newline - 2

\* The byte count: the parsed first line, or on ValueError/UnicodeDecodeError
\* the number of bytes after the first newline.
ByteCount(content, first_newline) ==
    LET line == SubSeq(content, 1, first_newline)
        n    == IF IsAscii(line) THEN IntOfStr(line) ELSE [ok |-> FALSE, val |-> 0]
    IN  IF n.ok THEN n.val ELSE Len(content) - first_newline - 1

\* A slice that starts at the newline instead of after it.
EmailSliceFromNewline(content, first_newline, byte_count) ==
    PySlice(content, first_newline, first_newline + byte_count)

\* content[email_start:email_start + byte_count]
EmailSlice(content, first_newline, byte_count) ==
    LET email_start == first_newline + 1
    IN  PySlice(content, email_start, email_start + byte_count)

\* A decoder that takes a container without a newline as all content.
ParseEmlxWholeWithoutNewline(container) ==
    IF ~container.readable THEN None
    ELSE IF Find(container.data, NL, 0) = -1 THEN Some(container.data)
    ELSE Some(EmailSlice(container.data, Find(container.data, NL, 0),
                         ByteCount(container.data, Find(container.data, NL, 0))))

\* Lines 39-62: the content of the container, or None.
ParseEmlx(container) ==
    IF ~container.readable THEN None            \* open() raises, caught at line 59
    ELSE LET content       == container.data
             first_newline == Find(content, NL, 0)
         IN  IF first_newline = -1 THEN None
             ELSE Some(EmailSlice(content, first_newline,
                                  ByteCount(content, first_newline)))

----------------------------------------------------------------------------
(* get_from_line: header block and regular-expression searches *)

UpperCase == <<"A", "B", "C", "D", "E", "F", "G", "H", "I", "J", "K", "L", "M",
               "N", "O", "P", "Q", "R", "S", "T", "U", "V", "W", "X", "Y", "Z">>
LowerCase == <<"a", "b", "c", "d", "e", "f", "g", "h", "i", "j", "k", "l", "m",
               "n", "o", "p", "q", "r", "s", "t", "u", "v", "w", "x", "y", "z">>

\* Case folding of re.IGNORECASE and str.lower() on the modelled characters.
Lower(c) == IF \E i \in 1..26 : UpperCase[i] = c
            THEN LowerCase[CHOOSE i \in 1..26 : UpperCase[i] = c]
            ELSE c
LowerSeq(s) == [i \in 1..Len(s) |-> Lower(s[i])]

\* The smallest element of a non-empty set of integers.
Least(S) == CHOOSE i \in S : \A j \in S : i <= j

\* email_content.split(b'\n\n')[0]: the bytes before the first b'\n\n'.
HeaderSection(email_content) ==
    LET cuts == {i \in 1..(Len(email_content) - 1) :
                    email_content[i] = NL /\ email_content[i + 1] = NL}
    IN  IF cuts = {} THEN email_content
        ELSE SubSeq(email_content, 1, Least(cuts) - 1)

\* bytes.decode('utf-8', errors='replace'): an invalid byte becomes U+FFFD.
DecodeUtf8Replace(b) == [i \in 1..Len(b) |-> IF b[i] = "x80" THEN "uFFFD" ELSE b[i]]

\* str.encode('utf-8'): U+FFFD becomes the three bytes EF BF BD.
RECURSIVE EncodeUtf8(_)
EncodeUtf8(s) ==
    IF s = <<>> THEN <<>>
    ELSE (IF Head(s) = "uFFFD" THEN <<"xEF", "xBF", "xBD">> ELSE <<Head(s)>>)
         \o EncodeUtf8(Tail(s))

\* The index of the last character of the line that holds index q.
EndOfLine(s, q) ==
    IF \E i \in q..Len(s) : s[i] = NL
    THEN Least({i \in q..Len(s) : s[i] = NL}) - 1
    ELSE Len(s)

\* The index after the longest run of whitespace that starts at index q0.
WhitespaceEnd(s, q0) ==
    IF \E i \in q0..Len(s) : s[i] \notin Whitespace
    THEN Least({i \in q0..Len(s) : s[i] \notin Whitespace})
    ELSE Len(s) + 1

\* The indices at which (.+?) can start after name\s* matched from index p:
\* \s* takes the longest run of whitespace and gives characters back until
\* the next character is not a newline.
GroupStarts(s, q0, wsEnd) == {q \in q0..Min(wsEnd, Len(s)) : s[q] # NL}

NameAt(s, name, p) ==
    /\ p + Len(name) - 1 <= Len(s)
    /\ LowerSeq(SubSeq(s, p, p + Len(name) - 1)) = name

\* name\s*(.+?)$  matches at index p of s (flags MULTILINE and IGNORECASE;
\* name in lower case).
FieldMatchesAt(s, name, p) ==
    /\ p = 1 \/ s[p - 1] = NL
    /\ NameAt(s, name, p)
    /\ GroupStarts(s, p + Len(name), WhitespaceEnd(s, p + Len(name))) # {}

\* The greatest element of a non-empty set of integers.
Greatest(S) == CHOOSE i \in S : \A j \in S : i >= j

\* group(1) of the match at index p: from the last index \s* can stop at to
\* the end of that line.
GroupFrom(s, q) == SubSeq(s, q, EndOfLine(s, q))
FieldGroupAt(s, name, p) ==
    GroupFrom(s, Greatest(GroupStarts(s, p + Len(name),
                                      WhitespaceEnd(s, p + Len(name)))))

\* re.search(r'^name\s*(.+?)$', s, re.MULTILINE | re.IGNORECASE).group(1),
\* or None: the match at the leftmost line start that has one.
SearchField(s, name) ==
    IF \E p \in 1..Len(s) : FieldMatchesAt(s, name, p)
    THEN Some(FieldGroupAt(s, name,
                           Least({p \in 1..Len(s) : FieldMatchesAt(s, name, p)})))
    ELSE None

\* '<([^>]+)>' matches at index i: a '<', one or more characters other than
\* '>', a '>'.
AngleAt(s, i) ==
    /\ s[i] = "<"
    /\ \E j \in (i + 2)..Len(s) :
          s[j] = ">" /\ \A k \in (i + 1)..(j - 1) : s[k] # ">"

AngleGroup(s, i) ==
    SubSeq(s, i + 1, Least({j \in (i + 1)..Len(s) : s[j] = ">"}) - 1)

\* re.search(r'<([^>]+)>', s).group(1), or None: the leftmost match.
SearchAngle(s) ==
    IF \E i \in 1..Len(s) : AngleAt(s, i)
    THEN Some(AngleGroup(s, Least({i \in 1..Len(s) : AngleAt(s, i)})))
    ELSE None

\* s.split()[0] of a stripped str that is not empty.
FirstTokenOfStripped(t) ==
    IF \E i \in 1..Len(t) : t[i] \in Whitespace
    THEN SubSeq(t, 1, Least({i \in 1..Len(t) : t[i] \in Whitespace}) - 1)
    ELSE t

FirstToken(s) == FirstTokenOfStripped(Strip(s))

Contains(s, c) == \E i \in 1..Len(s) : s[i] = c

MailerDaemon == <<"M", "A", "I", "L", "E", "R", "-", "D", "A", "E", "M", "O", "N">>

\* sender_raw.split()[0] if ' ' in sender_raw else sender_raw
PlainSender(sender_raw) ==
    IF Contains(sender_raw, " ") THEN FirstToken(sender_raw) ELSE sender_raw

\* Lines 88-93, given sender_raw and the match of '<([^>]+)>' in it.
SenderOfRaw(sender_raw, email_match) ==
    IF email_match.some THEN email_match.val
    ELSE IF Contains(sender_raw, "@") THEN PlainSender(sender_raw)
    ELSE MailerDaemon

\* Lines 85-93, given the match of the From field.
SenderOfMatch(from_match) ==
    IF ~from_match.some THEN MailerDaemon
    ELSE SenderOfRaw(Strip(from_match.val), SearchAngle(Strip(from_match.val)))

\* Lines 83-93: the sender of the envelope line.
Sender(headers) == SenderOfMatch(SearchField(headers, <<"f", "r", "o", "m", ":">>))

----------------------------------------------------------------------------
(* get_from_line: datetime.strptime and strftime *)

\* A datetime: its calendar fields (the zone offset never reaches strftime's
\* output, so it is not kept).
DateTime(Y, m, d, H, M, S) == [Y |-> Y, m |-> m, d |-> d, H |-> H, M |-> M, S |-> S]

DayNames == << <<"M", "o", "n">>, <<"T", "u", "e">>, <<"W", "e", "d">>,
               <<"T", "h", "u">>, <<"F", "r", "i">>, <<"S", "a", "t">>,
               <<"S", "u", "n">> >>

MonthNames == << <<"J", "a", "n">>, <<"F", "e", "b">>, <<"M", "a", "r">>,
                 <<"A", "p", "r">>, <<"M", "a", "y">>, <<"J", "u", "n">>,
                 <<"J", "u", "l">>, <<"A", "u", "g">>, <<"S", "e", "p">>,
                 <<"O", "c", "t">>, <<"N", "o", "v">>, <<"D", "e", "c">> >>

IsLeap(Y) == Y % 4 = 0 /\ (Y % 100 # 0 \/ Y % 400 = 0)

DaysBeforeMonth == <<0, 31, 59, 90, 120, 151, 181, 212, 243, 273, 304, 334>>

DaysInMonth(Y, m) ==
    IF m = 2 THEN (IF IsLeap(Y) THEN 29 ELSE 28)
    ELSE IF m \in {4, 6, 9, 11} THEN 30 ELSE 31

\* date.toordinal(): 1 for 0001-01-01.
Ordinal(dt) ==
    LET y1 == dt.Y - 1
    IN  y1 * 365 + (y1 \div 4) - (y1 \div 100) + (y1 \div 400)
        + DaysBeforeMonth[dt.m] + (IF dt.m > 2 /\ IsLeap(dt.Y) THEN 1 ELSE 0)
        + dt.d

\* date.weekday(): 0 for Monday.
Weekday(dt) == (Ordinal(dt) + 6) % 7

TwoDigits(n) == <<Digits[(n \div 10) + 1], Digits[(n % 10) + 1]>>

\* %d of strftime.
DayField(n) == TwoDigits(n)

\* %Y of strftime for the years 1000..9999.
FourDigits(n) == TwoDigits(n \div 100) \o TwoDigits(n % 100)

\* dt.strftime('%a %b %d %H:%M:%S %Y')
Strftime(dt) ==
    DayNames[Weekday(dt) + 1] \o <<" ">> \o MonthNames[dt.m] \o <<" ">>
    \o DayField(dt.d) \o <<" ">>
    \o TwoDigits(dt.H) \o <<":">> \o TwoDigits(dt.M) \o <<":">> \o TwoDigits(dt.S)
    \o <<" ">> \o FourDigits(dt.Y)

\* The result of matching one piece of a format at index pos of s: the index
\* after the match and the value of the field.
NoMatch == [ok |-> FALSE, end |-> 0, val |-> 0]
Match(end, val) == [ok |-> TRUE, end |-> end, val |-> val]

IsDigitAt(s, i) == i <= Len(s) /\ s[i] \in DigitChars
DigitAt(s, i) == DigitVal(s[i])
InRangeAt(s, i, lo, hi) == IsDigitAt(s, i) /\ DigitAt(s, i) >= lo /\ DigitAt(s, i) <= hi
Num2(s, i) == 10 * DigitAt(s, i) + DigitAt(s, i + 1)

\* One of names at pos, case-insensitively; the value is its 1-based index.
NameIs(names, k, s, pos) ==
    pos + 2 <= Len(s) /\ LowerSeq(SubSeq(s, pos, pos + 2)) = LowerSeq(names[k])

MatchName(names, s, pos) ==
    IF \E k \in 1..Len(names) : NameIs(names, k, s, pos)
    THEN Match(pos + 3, Least({k \in 1..Len(names) : NameIs(names, k, s, pos)}))
    ELSE NoMatch

\* %d: 3[0-1]|[1-2]\d|0[1-9]|[1-9]| [1-9]
MatchDay(s, pos) ==
    IF InRangeAt(s, pos, 3, 3) /\ InRangeAt(s, pos + 1, 0, 1)
        THEN Match(pos + 2, Num2(s, pos))
    ELSE IF InRangeAt(s, pos, 1, 2) /\ IsDigitAt(s, pos + 1)
        THEN Match(pos + 2, Num2(s, pos))
    ELSE IF InRangeAt(s, pos, 0, 0) /\ InRangeAt(s, pos + 1, 1, 9)
        THEN Match(pos + 2, Num2(s, pos))
    ELSE IF InRangeAt(s, pos, 1, 9)
        THEN Match(pos + 1, DigitAt(s, pos))
    ELSE IF pos <= Len(s) /\ s[pos] = " " /\ InRangeAt(s, pos + 1, 1, 9)
        THEN Match(pos + 2, DigitAt(s, pos + 1))
    ELSE NoMatch

\* %Y: \d\d\d\d
MatchYear(s, pos) ==
    IF \A i \in pos..(pos + 3) : IsDigitAt(s, i)
        THEN Match(pos + 4, 100 * Num2(s, pos) + Num2(s, pos + 2))
    ELSE NoMatch

\* %H: 2[0-3]|[0-1]\d|\d
MatchHour(s, pos) ==
    IF InRangeAt(s, pos, 2, 2) /\ InRangeAt(s, pos + 1, 0, 3)
        THEN Match(pos + 2, Num2(s, pos))
    ELSE IF InRangeAt(s, pos, 0, 1) /\ IsDigitAt(s, pos + 1)
        THEN Match(pos + 2, Num2(s, pos))
    ELSE IF IsDigitAt(s, pos) THEN Match(pos + 1, DigitAt(s, pos))
    ELSE NoMatch

\* %M: [0-5]\d|\d
MatchMinute(s, pos) ==
    IF InRangeAt(s, pos, 0, 5) /\ IsDigitAt(s, pos + 1)
        THEN Match(pos + 2, Num2(s, pos))
    ELSE IF IsDigitAt(s, pos) THEN Match(pos + 1, DigitAt(s, pos))
    ELSE NoMatch

\* %S: 6[0-1]|[0-5]\d|\d
MatchSecond(s, pos) ==
    IF InRangeAt(s, pos, 6, 6) /\ InRangeAt(s, pos + 1, 0, 1)
        THEN Match(pos + 2, Num2(s, pos))
    ELSE IF InRangeAt(s, pos, 0, 5) /\ IsDigitAt(s, pos + 1)
        THEN Match(pos + 2, Num2(s, pos))
    ELSE IF IsDigitAt(s, pos) THEN Match(pos + 1, DigitAt(s, pos))
    ELSE NoMatch

\* (\.\d{1,6})? at index p: the number of characters it takes.
FractionLen(s, p) ==
    IF p <= Len(s) /\ s[p] = "." /\ IsDigitAt(s, p + 1)
    THEN 1 + Greatest({k \in 1..6 : \A i \in 1..k : IsDigitAt(s, p + i)})
    ELSE 0

ZoneInvalid == 24 * 60 * 60

\* The seconds of %z, (:?[0-5]\d(\.\d{1,6})?)?, at index sec or the one
\* after a ':' there; min is the index of the minutes. _strptime raises
\* ValueError where the ':' before the seconds does not agree with the one
\* before the minutes: the value is then ZoneInvalid.
MatchZoneSeconds(s, pos, min, sec, colon1, colon2) ==
    IF ~(InRangeAt(s, sec, 0, 5) /\ IsDigitAt(s, sec + 1))
    THEN Match(min + 2, 3600 * Num2(s, pos + 1) + 60 * Num2(s, min))
    ELSE Match(sec + 2 + FractionLen(s, sec + 2),
               IF colon1 # colon2 THEN ZoneInvalid
               ELSE 3600 * Num2(s, pos + 1) + 60 * Num2(s, min) + Num2(s, sec))

ColonAt(s, i) == i <= Len(s) /\ s[i] = ":"

\* The minutes of %z at index min.
MatchZoneMinutes(s, pos, min, colon1) ==
    IF ~(InRangeAt(s, min, 0, 5) /\ IsDigitAt(s, min + 1)) THEN NoMatch
    ELSE MatchZoneSeconds(s, pos, min,
                          IF ColonAt(s, min + 2) THEN min + 3 ELSE min + 2,
                          colon1, ColonAt(s, min + 2))

\* %z: [+-]\d\d:?[0-5]\d(:?[0-5]\d(\.\d{1,6})?)?|Z ; the value is the
\* magnitude of the offset in seconds.
MatchZone(s, pos) ==
    IF pos <= Len(s) /\ s[pos] = "Z" THEN Match(pos + 1, 0)
    ELSE IF ~(/\ pos <= Len(s) /\ s[pos] \in {"+", "-"}
              /\ IsDigitAt(s, pos + 1) /\ IsDigitAt(s, pos + 2))
        THEN NoMatch
    ELSE MatchZoneMinutes(s, pos,
                          IF ColonAt(s, pos + 3) THEN pos + 4 ELSE pos + 3,
                          ColonAt(s, pos + 3))

\* Whitespace in a format: \s+
MatchSpace(s, pos) ==
    IF pos <= Len(s) /\ s[pos] \in Whitespace
    THEN Match(WhitespaceEnd(s, pos), 0)
    ELSE NoMatch

\* Any other character of a format: itself
MatchLiteral(c, s, pos) ==
    IF pos <= Len(s) /\ s[pos] = c THEN Match(pos + 1, 0) ELSE NoMatch

\* The pieces of a format, each by the regular expression _strptime gives
\* it; "ws" is a run of whitespace of the format.
MatchPiece(piece, s, pos) ==
    CASE piece = "%a" -> MatchName(DayNames, s, pos)
      [] piece = "%b" -> MatchName(MonthNames, s, pos)
      [] piece = "%d" -> MatchDay(s, pos)
      [] piece = "%Y" -> MatchYear(s, pos)
      [] piece = "%H" -> MatchHour(s, pos)
      [] piece = "%M" -> MatchMinute(s, pos)
      [] piece = "%S" -> MatchSecond(s, pos)
      [] piece = "%z" -> MatchZone(s, pos)
      [] piece = "ws" -> MatchSpace(s, pos)
      [] OTHER -> MatchLiteral(piece, s, pos)

\* The fields found so far, by piece.
FieldPieces == {"%d", "%b", "%Y", "%H", "%M", "%S", "%z"}
NoFields == [p \in FieldPieces |-> 0]

SetField(fields, piece, val) ==
    IF piece \in FieldPieces THEN [fields EXCEPT ![piece] = val] ELSE fields

\* Match the pieces k.. of fmt from index pos of s; ok = FALSE when a piece
\* does not match or data remains after the last piece ("unconverted data").
RECURSIVE MatchFormat(_, _, _, _, _)
RECURSIVE MatchFormatAfter(_, _, _, _, _)
MatchFormatAfter(fmt, k, s, fields, r) ==
    IF ~r.ok THEN [ok |-> FALSE, fields |-> fields]
    ELSE MatchFormat(fmt, k + 1, s, r.end, SetField(fields, fmt[k], r.val))

MatchFormat(fmt, k, s, pos, fields) ==
    IF k > Len(fmt)
    THEN [ok |-> pos = Len(s) + 1, fields |-> fields]
    ELSE MatchFormatAfter(fmt, k, s, fields, MatchPiece(fmt[k], s, pos))

NoDate == [ok |-> FALSE, dt |-> DateTime(1, 1, 1, 0, 0, 0)]

\* A check of the fields that lets every day up to 31 pass in every month.
DateOfFieldsAnyDay(r) ==
    IF /\ r.ok
       /\ r.fields["%Y"] >= 1
       /\ r.fields["%S"] <= 59
       /\ r.fields["%z"] < ZoneInvalid
    THEN [ok |-> TRUE,
          dt |-> DateTime(r.fields["%Y"], r.fields["%b"], r.fields["%d"],
                          r.fields["%H"], r.fields["%M"], r.fields["%S"])]
    ELSE NoDate

\* The datetime of the fields; ok = FALSE stands for ValueError (no match,
\* unconverted data, a date or time out of range, a zone offset of a day or
\* more, an inconsistent ':' in the zone).
DateOfFields(r) ==
    IF /\ r.ok
       /\ r.fields["%Y"] >= 1
       /\ r.fields["%d"] <= DaysInMonth(r.fields["%Y"], r.fields["%b"])
       /\ r.fields["%S"] <= 59
       /\ r.fields["%z"] < ZoneInvalid
    THEN [ok |-> TRUE,
          dt |-> DateTime(r.fields["%Y"], r.fields["%b"], r.fields["%d"],
                          r.fields["%H"], r.fields["%M"], r.fields["%S"])]
    ELSE NoDate

\* datetime.strptime(s, fmt)
Strptime(s, fmt) == DateOfFields(MatchFormat(fmt, 1, s, 1, NoFields))

DateCore == <<"%d", "ws", "%b", "ws", "%Y", "ws", "%H", ":", "%M", ":", "%S">>

\* Lines 101-106: the formats, in the order they are tried.
DateFormats ==
    << <<"%a", ",", "ws">> \o DateCore \o <<"ws", "%z">>,   \* '%a, %d %b %Y %H:%M:%S %z'
       DateCore \o <<"ws", "%z">>,                          \* '%d %b %Y %H:%M:%S %z'
       <<"%a", ",", "ws">> \o DateCore,                     \* '%a, %d %b %Y %H:%M:%S'
       DateCore >>                                          \* '%d %b %Y %H:%M:%S'

\* date_str[:31]
DateStrLimit == 31

\* Lines 101-112: the loop over the formats from the i-th on, for the cut
\* date_str; the first format that parses gives the date (break).
RECURSIVE TryFormats(_, _)
RECURSIVE TryFormatsAfter(_, _, _)
TryFormatsAfter(cut, i, parsed_dt) ==
    IF parsed_dt.ok THEN parsed_dt ELSE TryFormats(cut, i + 1)

TryFormats(cut, i) ==
    IF i > Len(DateFormats) THEN NoDate
    ELSE TryFormatsAfter(cut, i, Strptime(cut, DateFormats[i]))

ParseDate(date_str) == TryFormats(PySlice(date_str, 0, DateStrLimit), 1)

\* Lines 96 and 109: the parsed date if there is one, else the wall clock.
FormatParsed(parsed_dt, clock) ==
    IF parsed_dt.ok THEN Strftime(parsed_dt.dt) ELSE Strftime(clock)

\* Lines 98-112, given the match of the Date field.
DateOfMatch(date_match, clock) ==
    IF ~date_match.some THEN Strftime(clock)
    ELSE FormatParsed(ParseDate(Strip(date_match.val)), clock)

\* Lines 96-112: the timestamp of the envelope line.
DateFormatted(headers, clock) ==
    DateOfMatch(SearchField(headers, <<"d", "a", "t", "e", ":">>), clock)

\* f"From {sender} {date_formatted}\n"
FromLineOfHeaders(headers, clock) ==
    <<"F", "r", "o", "m", " ">> \o Sender(headers) \o <<" ">>
    \o DateFormatted(headers, clock) \o <<NL>>

GetFromLine(email_content, clock) ==
    FromLineOfHeaders(DecodeUtf8Replace(HeaderSection(email_content)), clock)

----------------------------------------------------------------------------
(* escape_from_lines *)

\* content.split(b'\n'): the lines between the newlines, at least one.
RECURSIVE SplitLines(_)
SplitLines(content) ==
    LET i == Find(content, NL, 0)
    IN  IF i = -1 THEN <<content>>
        ELSE <<SubSeq(content, 1, i)>>
             \o SplitLines(SubSeq(content, i + 2, Len(content)))

\* b'\n'.join(lines)
RECURSIVE JoinLines(_)
JoinLines(lines) ==
    IF Len(lines) = 0 THEN <<>>
    ELSE IF Len(lines) = 1 THEN lines[1]
    ELSE lines[1] \o <<NL>> \o JoinLines(Tail(lines))

FromSpace == <<"F", "r", "o", "m", " ">>

\* A slice that keeps the space twice: line[4:] for line[5:].
EscapeLineSliceFour(line) ==
    IF StartsWith(line, FromSpace)
    THEN <<">">> \o FromSpace \o SubSeq(line, 5, Len(line))
    ELSE line

\* Lines 135-138: one line of the loop.
EscapeLine(line) ==
    IF StartsWith(line, FromSpace)
    THEN <<">">> \o FromSpace \o SubSeq(line, 6, Len(line))
    ELSE line

\* An escaping that changes no line.
EscapeNothing(content) == content

\* Lines 132-139.
EscapeFromLines(content) ==
    LET lines   == SplitLines(content)
        escaped_lines == [i \in 1..Len(lines) |-> EscapeLine(lines[i])]
    IN  JoinLines(escaped_lines)

----------------------------------------------------------------------------
(* Inputs of parse_emlx *)

MaxRawLen == 5

RawAlphabet == {"0", "2", "4", "-", "a", NL, "x80"}

SeqsUpTo(S, n) == UNION {[1..k -> S] : k \in 0..n}

RawContainers == {Readable(b) : b \in SeqsUpTo(RawAlphabet, MaxRawLen)} \cup {Unreadable}

Epoch == DateTime(1970, 1, 1, 0, 0, 0)

\* What a message was built from: the value of its From field, the value of
\* its Date field, and whether the first len characters of the Date value
\* are a date of the calendar dt written in an accepted format.
Denotes(ok, dt, len) == [ok |-> ok, dt |-> dt, len |-> len]
NoHeaders == [from |-> None, date |-> None, denotes |-> Denotes(FALSE, Epoch, 0)]

ParseIdle == raw = Unreadable /\ parsed = Pending

MessageIdle ==
    /\ msg = <<>> /\ hdr = NoHeaders
    /\ from_line = Pending /\ escaped = Pending

FolderIdle ==
    /\ tree = {} /\ emlx_files = <<>>
    /\ files = <<>> /\ pc = "idle" /\ idx = 0
    /\ mbox = None /\ count = 0 /\ written = <<>>
    /\ first_run = None

AccountIdle ==
    /\ source = {} /\ mbox_folders = <<>> /\ output_dir = {}
    /\ email_counts = {} /\ apc = "idle" /\ fidx = 0
    /\ clean_name = <<>> /\ results = <<>>

InitParse ==
    /\ raw \in RawContainers
    /\ parsed = Pending
    /\ now = Epoch
    /\ MessageIdle
    /\ FolderIdle
    /\ AccountIdle

\* result = converter.parse_emlx(path)
CallParseEmlx ==
    /\ parsed = Pending
    /\ parsed' = ParseEmlx(raw)
    /\ UNCHANGED <<raw, now, messageVars, folderVars, accountVars>>

NextParse == CallParseEmlx

SpecParse == InitParse /\ [][NextParse]_vars

----------------------------------------------------------------------------
(* Claims about parse_emlx *)

\* str(n) for n >= 0, as test_parse_emlx_valid builds the length line.
RECURSIVE Ascii(_)
Ascii(n) == IF n < 10 THEN <<Digits[n + 1]>>
            ELSE Ascii(n \div 10) \o <<Digits[(n % 10) + 1]>>

\* raw is ASCII(n) + "\n" + content + trailer with n = len(content).
WellFormedWith(n) ==
    /\ raw.readable
    /\ StartsWith(raw.data, Ascii(n) \o <<NL>>)
    /\ Len(raw.data) >= Len(Ascii(n)) + 1 + n

ContentOf(n) == SubSeq(raw.data, Len(Ascii(n)) + 2, Len(Ascii(n)) + 1 + n)

\* C1: for every container ASCII(n) + "\n" + content + trailer with
\* n = len(content), parse_emlx returns exactly content, whatever the
\* trailer is (the empty trailer included).
C1_RoundTrip ==
    parsed # Pending =>
        \A n \in 0..MaxRawLen :
            WellFormedWith(n) => parsed = Some(ContentOf(n))

\* C1 witness: a container with two content bytes and a non-empty trailer
\* has been decoded.
C1_Witness ==
    /\ parsed # Pending
    /\ WellFormedWith(2)
    /\ Len(raw.data) > 4
    /\ parsed.some /\ Len(parsed.val) = 2

\* The first line of raw (the bytes before the first newline).
FirstLine == SubSeq(raw.data, 1, Find(raw.data, NL, 0))
AfterFirstLine == SubSeq(raw.data, Find(raw.data, NL, 0) + 2, Len(raw.data))
HasNewline == raw.readable /\ Find(raw.data, NL, 0) # -1

\* The first line is an optionally signed run of decimal digits.
IsSignedDecimal(line, signs) ==
    LET t    == Strip(line)
        body == IF t # <<>> /\ t[1] \in signs THEN Tail(t) ELSE t
    IN  /\ body # <<>>
        /\ \A i \in 1..Len(body) : body[i] \in DigitChars \cup {"_"}
        /\ body[1] # "_" /\ body[Len(body)] # "_"
        /\ \A i \in 1..(Len(body) - 1) : ~(body[i] = "_" /\ body[i + 1] = "_")

FirstLineIsInteger == IsAscii(FirstLine) /\ IsSignedDecimal(FirstLine, {"+", "-"})
FirstLineIsNegative ==
    /\ IsAscii(FirstLine)
    /\ IsSignedDecimal(FirstLine, {"-"})
    /\ Strip(FirstLine)[1] = "-"
    /\ \E i \in 1..Len(FirstLine) : FirstLine[i] \in DigitChars \ {"0"}

\* C2: for every container that has a line terminator and whose first line
\* is not an integer (non-numeric or non-ASCII), parse_emlx returns exactly
\* the bytes after the first line terminator and does not fail.
C2_FallbackOnBadLength ==
    (parsed # Pending /\ HasNewline /\ ~FirstLineIsInteger) =>
        parsed = Some(AfterFirstLine)

\* C2 witness: a container whose first line holds a non-ASCII byte and that
\* has bytes after the line terminator has been decoded.
C2_Witness ==
    /\ parsed # Pending /\ HasNewline
    /\ ~IsAscii(FirstLine)
    /\ AfterFirstLine # <<>>
    /\ parsed.some /\ parsed.val # <<>>

\* C3: when the first line parses as a negative integer, parse_emlx treats
\* it as not parseable and returns exactly the bytes after the first line
\* terminator, never a shortened or empty slice of them.
C3_NegativeLengthFallsBack ==
    (parsed # Pending /\ HasNewline /\ FirstLineIsNegative) =>
        parsed = Some(AfterFirstLine)

----------------------------------------------------------------------------
(* Inputs of get_from_line *)

RECURSIVE Concat(_)
Concat(seqs) == IF seqs = <<>> THEN <<>> ELSE Head(seqs) \o Concat(Tail(seqs))

MaxFromChunks == 4

\* The pieces the value of a From field is built from.
FromChunks == { <<"a", "@", "b">>, <<"J">>, <<" ">>, <<TAB>>, <<"<">>, <<">">> }

FromValues == {Concat(cs) : cs \in SeqsUpTo(FromChunks, MaxFromChunks)}
ShortFromValues == {Concat(cs) : cs \in SeqsUpTo(FromChunks, MaxFromChunks - 2)}

FromNames == { <<"F", "r", "o", "m", ":">>, <<"F", "R", "O", "M", ":">> }

LineTerminators == { <<NL>>, <<CR, NL>> }

ExampleDate ==
    <<"M", "o", "n", ",", " ", "0", "1", " ", "J", "a", "n", " ",
      "2", "0", "2", "4", " ", "1", "2", ":", "0", "0", ":", "0", "0", " ",
      "+", "0", "0", "0", "0">>

DateName == <<"D", "a", "t", "e", ":">>

\* The header lines that may follow the From field.
ToLine == <<"T", "o", ":", " ", "c", "@", "d">>
NextLines == {"none", "to", "date"}

ClockStart == DateTime(2026, 11, 4, 16, 42, 57)
ClockLater == DateTime(2027, 1, 1, 0, 0, 0)
Clocks == {ClockStart, ClockLater}

\* A message with a From field: name, value, the next header line, a blank
\* line and a body.
SenderInput(name, value, next, term) ==
    [msg |-> name \o <<" ">> \o value \o term
             \o (CASE next = "none" -> <<>>
                   [] next = "to"   -> ToLine \o term
                   [] next = "date" -> DateName \o <<" ">> \o ExampleDate \o term)
             \o term \o <<"B">>,
     hdr |-> [from   |-> Some(<<" ">> \o value),
              date   |-> IF next = "date" THEN Some(ExampleDate) ELSE None,
              denotes |-> IF next = "date"
                          THEN Denotes(TRUE, DateTime(2024, 1, 1, 12, 0, 0),
                                       Len(ExampleDate))
                          ELSE Denotes(FALSE, Epoch, 0)]]

\* Every value under the name "From:" and LF; the shorter values also under
\* the other spelling of the name and under CRLF.
SenderInputs ==
    {SenderInput(<<"F", "r", "o", "m", ":">>, value, next, <<NL>>) :
        value \in FromValues, next \in NextLines}
    \cup
    {SenderInput(name, value, next, term) :
        name \in FromNames, value \in ShortFromValues,
        next \in NextLines, term \in LineTerminators}

\* The parts a Date value is written from, each with the value it denotes
\* (ok = FALSE: no accepted format reads the part).
Part(text, ok, val) == [text |-> text, ok |-> ok, val |-> val]

WeekdayParts == { Part(<<>>, TRUE, 0),
                  Part(<<"M", "o", "n", ",", " ">>, TRUE, 0),
                  Part(<<"f", "r", "i", ",", " ", " ">>, TRUE, 0) }

DayParts == { Part(<<"0", "1">>, TRUE, 1), Part(<<"1">>, TRUE, 1),
              Part(<<"2", "9">>, TRUE, 29), Part(<<"3", "1">>, TRUE, 31) }

MonthParts == { Part(<<"J", "a", "n">>, TRUE, 1), Part(<<"f", "e", "b">>, TRUE, 2),
                Part(<<"A", "p", "r">>, TRUE, 4) }

YearParts == { Part(<<"2", "0", "2", "4">>, TRUE, 2024),
               Part(<<"2", "0", "2", "3">>, TRUE, 2023) }

TimeParts ==
    { Part(<<"1", "2", ":", "0", "0", ":", "0", "0">>, TRUE, <<12, 0, 0>>),
      Part(<<"1", ":", "2", ":", "3">>, TRUE, <<1, 2, 3>>),
      Part(<<"2", "3", ":", "5", "9", ":", "5", "9">>, TRUE, <<23, 59, 59>>),
      Part(<<"2", "4", ":", "0", "0", ":", "0", "0">>, FALSE, <<0, 0, 0>>),
      Part(<<"0", ":", "0", ":", "6", "0">>, FALSE, <<0, 0, 0>>) }

ZoneParts == { Part(<<>>, TRUE, 0),
               Part(<<" ", "+", "0", "0", "0", "0">>, TRUE, 0),
               Part(<<" ", "-", "0", "5", "3", "0">>, TRUE, 0),
               Part(<<" ", "Z">>, TRUE, 0),
               Part(<<" ", "U", "T", "C">>, FALSE, 0) }

CommentParts == { <<>>, <<" ", "(", "U", "T", "C", ")">> }

\* A message with a Date field written from the parts, which a comment may
\* follow; the parts denote a date when each is readable and the day exists
\* in the month.
DateInput(wd, d, m, y, t, z, comment, term) ==
    LET base  == wd.text \o d.text \o <<" ">> \o m.text \o <<" ">> \o y.text
                 \o <<" ">> \o t.text \o z.text
        value == base \o comment
        valid == t.ok /\ z.ok /\ d.val <= DaysInMonth(y.val, m.val)
    IN  [msg |-> DateName \o <<" ">> \o value \o term \o term \o <<"B">>,
         hdr |-> [from   |-> None,
                  date   |-> Some(value),
                  denotes |-> Denotes(valid,
                                      IF valid
                                      THEN DateTime(y.val, m.val, d.val,
                                                    t.val[1], t.val[2], t.val[3])
                                      ELSE Epoch,
                                      Len(base))]]

DateInputs ==
    {DateInput(wd, d, m, y, t, z, comment, term) :
        wd \in WeekdayParts, d \in DayParts, m \in MonthParts, y \in YearParts,
        t \in TimeParts, z \in ZoneParts, comment \in CommentParts,
        term \in LineTerminators}

\* Messages without the two fields: empty, no header at all (the content of
\* test_malformed_email), invalid UTF-8, only a To field.
PlainInputs ==
    {[msg |-> m, hdr |-> NoHeaders] :
        m \in { <<>>, <<"T", "h", "i", "s", " ", "i", "s">>, <<"x80", "x80">>,
                <<NL>>, ToLine \o <<CR, NL, CR, NL>> \o <<"B">> }}

FromLineInputs == SenderInputs \cup DateInputs \cup PlainInputs

InitFromLine ==
    /\ \E i \in FromLineInputs : msg = i.msg /\ hdr = i.hdr
    /\ now \in Clocks
    /\ from_line = Pending /\ escaped = Pending
    /\ ParseIdle
    /\ FolderIdle
    /\ AccountIdle

\* from_line = converter.get_from_line(email)
CallGetFromLine ==
    /\ from_line = Pending
    /\ from_line' = Some(GetFromLine(msg, now))
    /\ UNCHANGED <<msg, hdr, escaped, now, parseVars, folderVars, accountVars>>

NextFromLine == CallGetFromLine

SpecFromLine == InitFromLine /\ [][NextFromLine]_vars

----------------------------------------------------------------------------
(* Claims about get_from_line *)

\* The characters of the returned line between "From " and the timestamp:
\* the line ends with ' ', the 24 characters of the timestamp and '\n'.
TokenOf(line) == SubSeq(line, 6, Len(line) - 26)
TimestampOf(line) == SubSeq(line, Len(line) - 24, Len(line) - 1)

\* Www Mmm dd HH:MM:SS YYYY
IsTimestamp(t) ==
    /\ Len(t) = 24
    /\ \E k \in 1..7 : SubSeq(t, 1, 3) = DayNames[k]
    /\ \E k \in 1..12 : SubSeq(t, 5, 7) = MonthNames[k]
    /\ \A i \in {4, 8, 11, 20} : t[i] = " "
    /\ \A i \in {14, 17} : t[i] = ":"
    /\ \A i \in {9, 10, 12, 13, 15, 16, 18, 19, 21, 22, 23, 24} : t[i] \in DigitChars

IsEnvelopeLine(line) ==
    /\ Len(line) >= 5 + 1 + 1 + 24 + 1
    /\ SubSeq(line, 1, 5) = FromSpace
    /\ line[Len(line)] = NL
    /\ \A i \in 1..(Len(line) - 1) : line[i] # NL
    /\ line[Len(line) - 25] = " "
    /\ IsTimestamp(TimestampOf(line))
    /\ TokenOf(line) # <<>>
    /\ \A i \in 1..Len(TokenOf(line)) : TokenOf(line)[i] \notin Whitespace

\* C5: for any message bytes get_from_line returns exactly one line of the
\* form "From " token " " Weekday " " Month " " dd " " HH:MM:SS " " YYYY "\n"
\* whose token is not empty and holds no whitespace or line terminator.
C5_EnvelopeAlwaysPresent ==
    from_line # Pending => IsEnvelopeLine(from_line.val)

\* The sender token the From field's value gives by the documented rule.
DocumentedSender(field) ==
    IF ~field.some THEN MailerDaemon
    ELSE LET value == Strip(field.val)
         IN  IF \E i \in 1..Len(value) : AngleAt(value, i)
             THEN SearchAngle(value).val
             ELSE IF Contains(value, "@") THEN FirstToken(value)
             ELSE MailerDaemon

\* C6: with a From field present the token is the angle-bracket-delimited
\* address of the value if there is one, otherwise the first
\* whitespace-delimited token of the value (space or tab) if the value holds
\* '@', otherwise MAILER-DAEMON; without a From field it is MAILER-DAEMON.
C6_SenderTokenDerivation ==
    from_line # Pending => TokenOf(from_line.val) = DocumentedSender(hdr.from)

ExampleTimestamp ==
    <<"M", "o", "n", " ", "J", "a", "n", " ", "0", "1", " ",
      "1", "2", ":", "0", "0", ":", "0", "0", " ", "2", "0", "2", "4">>

\* The whole Date value is a date in an accepted format.
DateValueParses ==
    hdr.date.some /\ hdr.denotes.ok /\ hdr.denotes.len = Len(hdr.date.val)

\* The first 31 characters of the Date value are a date in an accepted format.
DatePrefixParses ==
    /\ hdr.date.some /\ hdr.denotes.ok
    /\ hdr.denotes.len = Min(Len(hdr.date.val), DateStrLimit)

NoUsableSender(value) ==
    \/ Strip(value) = <<>>
    \/ /\ ~\E i \in 1..Len(Strip(value)) : AngleAt(Strip(value), i)
       /\ ~Contains(value, "@")

\* C19: when the From field's own value is empty or holds neither an
\* angle-bracket-delimited address nor '@', the sender token is
\* MAILER-DAEMON, whatever the other header lines hold, the line that
\* follows the From field included.
C19_NoUsableSenderIsMailerDaemon ==
    (from_line # Pending /\ hdr.from.some /\ NoUsableSender(hdr.from.val)) =>
        TokenOf(from_line.val) = MailerDaemon

----------------------------------------------------------------------------
(* Inputs of get_from_line: messages with a body *)

BodyFrom == <<"F", "r", "o", "m", ":", " ", "c", "@", "d">>
BodyDate ==
    <<"D", "a", "t", "e", ":", " ", "0", "2", " ", "f", "e", "b", " ",
      "2", "0", "2", "3", " ", "1", ":", "2", ":", "3">>

\* The header blocks: nothing, a To field, a From field, a Date field.
HeaderBlocks ==
    { <<>>,
      << ToLine >>,
      << <<"F", "r", "o", "m", ":", " ", "a", "@", "b">> >>,
      << ToLine, DateName \o <<" ">> \o ExampleDate >> }

\* The bodies: text, and lines that look like a From or a Date field, first
\* or after a line of text.
BodyBlocks ==
    { << <<"B">> >>,
      << BodyFrom >>,
      << BodyDate >>,
      << <<"B">>, BodyFrom, BodyDate >>,
      << <<"f", "r", "o", "m", ":", "<", "J", ">">>, <<"B">> >> }

\* The lines, each followed by the line terminator.
RECURSIVE Terminated(_, _)
Terminated(lines, term) ==
    IF lines = <<>> THEN <<>>
    ELSE Head(lines) \o term \o Terminated(Tail(lines), term)

\* A message: header lines, a blank line, body lines.
BodyInput(header, body, term) ==
    [msg |-> Terminated(header, term) \o term \o Terminated(body, term),
     hdr |-> [from    |-> None,
              date    |-> None,
              denotes |-> Denotes(FALSE, Epoch, Len(Terminated(header, term)))]]

BodyInputs ==
    {BodyInput(header, body, term) :
        header \in HeaderBlocks, body \in BodyBlocks, term \in LineTerminators}

InitScan ==
    /\ \E i \in BodyInputs : msg = i.msg /\ hdr = i.hdr
    /\ now \in Clocks
    /\ from_line = Pending /\ escaped = Pending
    /\ ParseIdle
    /\ FolderIdle
    /\ AccountIdle

SpecScan == InitScan /\ [][NextFromLine]_vars

\* The header block of msg: the lines before its first blank line.
HeaderBlockOf == SubSeq(msg, 1, hdr.denotes.len)

\* C18: the sender token and the timestamp are derived only from the header
\* block, the lines before the first blank line, for LF and for CRLF line
\* terminators: the envelope line is the one the header block alone gives,
\* whatever lines beginning with "From:" or "Date:" the body holds.
C18_HeaderOnlyScanning ==
    from_line # Pending =>
        from_line.val = GetFromLine(HeaderBlockOf, now)

----------------------------------------------------------------------------
(* Inputs of escape_from_lines *)

MaxEscapeChunks == 4

EscapeChunks == { FromSpace, <<"F", "r", "o", "m">>, <<"f", "r", "o", "m", " ">>,
                  <<">">>, <<NL>>, <<CR>>, <<"x">> }

EscapeInputs == {Concat(cs) : cs \in SeqsUpTo(EscapeChunks, MaxEscapeChunks)}

InitEscape ==
    /\ msg \in EscapeInputs
    /\ hdr = NoHeaders
    /\ now = Epoch
    /\ from_line = Pending /\ escaped = Pending
    /\ ParseIdle
    /\ FolderIdle
    /\ AccountIdle

\* escaped = converter.escape_from_lines(content)
CallEscapeFromLines ==
    /\ escaped = Pending
    /\ escaped' = Some(EscapeFromLines(msg))
    /\ UNCHANGED <<msg, hdr, from_line, now, parseVars, folderVars, accountVars>>

NextEscape == CallEscapeFromLines

SpecEscape == InitEscape /\ [][NextEscape]_vars

----------------------------------------------------------------------------
(* Claims about escape_from_lines *)

\* The lines of s by position: line k lies between the (k-1)-th and the
\* k-th newline of s.
NewlinesBefore(s, p) == Cardinality({i \in 1..(p - 1) : s[i] = NL})
LineCount(s) == NewlinesBefore(s, Len(s) + 1) + 1
LineStart(s, k) ==
    CHOOSE p \in 1..(Len(s) + 1) :
        /\ NewlinesBefore(s, p) = k - 1
        /\ (p = 1 \/ s[p - 1] = NL)
LineEnd(s, k) ==
    IF k = LineCount(s) THEN Len(s)
    ELSE (CHOOSE p \in 1..Len(s) : s[p] = NL /\ NewlinesBefore(s, p) = k - 1) - 1
LineOf(s, k) == SubSeq(s, LineStart(s, k), LineEnd(s, k))

BeginsWithFrom(line) == Len(line) >= 5 /\ SubSeq(line, 1, 5) = FromSpace

\* C8: escape_from_lines returns the same number of "\n"-separated lines;
\* each line that begins with the five bytes "From " gains exactly one
\* leading ">" and every other line is unchanged; so no line of the output
\* begins with "From ", and a second application changes nothing.
C8_FromLineEscaping ==
    escaped # Pending =>
        /\ LineCount(escaped.val) = LineCount(msg)
        /\ \A k \in 1..LineCount(msg) :
              LineOf(escaped.val, k) =
                  IF BeginsWithFrom(LineOf(msg, k))
                  THEN <<">">> \o LineOf(msg, k) ELSE LineOf(msg, k)
        /\ \A k \in 1..LineCount(escaped.val) :
              ~BeginsWithFrom(LineOf(escaped.val, k))
        /\ EscapeFromLines(escaped.val) = escaped.val

\* C8 witness: a content whose first line and a later line begin with
\* "From " and that has a line that does not has been escaped.
C8_Witness ==
    /\ escaped # Pending
    /\ LineCount(msg) >= 3
    /\ BeginsWithFrom(LineOf(msg, 1))
    /\ \E k \in 2..LineCount(msg) : BeginsWithFrom(LineOf(msg, k))
    /\ \E k \in 2..LineCount(msg) : ~BeginsWithFrom(LineOf(msg, k))
    /\ Len(escaped.val) = Len(msg) + 2

----------------------------------------------------------------------------
(* find_emlx_files *)

\* The characters of the modelled path names, in the order of their code
\* points.
OrderedChars ==
    <<" ", "-", ".", "/",
      "0", "1", "2", "3", "4", "5", "6", "7", "8", "9",
      "A", "B", "C", "D", "E", "F", "G", "H", "I", "J", "K", "L", "M",
      "N", "O", "P", "Q", "R", "S", "T", "U", "V", "W", "X", "Y", "Z",
      "[", "]", "_",
      "a", "b", "c", "d", "e", "f", "g", "h", "i", "j", "k", "l", "m",
      "n", "o", "p", "q", "r", "s", "t", "u", "v", "w", "x", "y", "z">>

CodeRank(c) == CHOOSE i \in 1..Len(OrderedChars) : OrderedChars[i] = c

\* a < b of two str: by code point at the first difference; a proper prefix
\* is the smaller.
StrLess(a, b) ==
    \E k \in 1..(Len(a) + 1) :
        /\ k <= Len(b)
        /\ \A i \in 1..(k - 1) : a[i] = b[i]
        /\ k <= Len(a) => CodeRank(a[k]) < CodeRank(b[k])

\* An entry beneath a directory: its path relative to the directory, as the
\* sequence of its names; a file with its container, or a directory.
FileEntry(path, container) == [path |-> path, dir |-> FALSE, container |-> container]
DirEntry(path) == [path |-> path, dir |-> TRUE, container |-> Unreadable]

\* os.path.join(root, name), relative to the directory walked.
RECURSIVE JoinPath(_)
JoinPath(path) ==
    IF Len(path) = 1 THEN path[1]
    ELSE path[1] \o <<"/">> \o JoinPath(Tail(path))

DotEmlx == <<".", "e", "m", "l", "x">>
DotPartialEmlx == <<".", "p", "a", "r", "t", "i", "a", "l">> \o DotEmlx

\* Line 154: file.endswith('.emlx') or file.endswith('.partial.emlx')
IsEmlxName(file) == EndsWith(file, DotEmlx) \/ EndsWith(file, DotPartialEmlx)

\* Name by name: a path is smaller when its first differing name is.
PathLessByNames(a, b) ==
    \E k \in 1..(Len(a) + 1) :
        /\ k <= Len(b)
        /\ \A i \in 1..(k - 1) : a[i] = b[i]
        /\ k <= Len(a) => StrLess(a[k], b[k])

\* The order of sorted(): that of the joined paths as str.
PathLess(a, b) == StrLess(JoinPath(a), JoinPath(b))

\* sorted(emlx_files)
RECURSIVE SortedPaths(_)
SortedPaths(paths) ==
    IF paths = {} THEN <<>>
    ELSE LET first == CHOOSE a \in paths : \A b \in paths \ {a} : PathLess(a, b)
         IN  <<first>> \o SortedPaths(paths \ {first})

\* Lines 151-156: os.walk lists the files of every directory beneath the
\* one given; the names that end in .emlx are kept and sorted.
FindEmlxFiles(entries) ==
    SortedPaths({e.path : e \in {x \in entries :
                                    ~x.dir /\ IsEmlxName(x.path[Len(x.path)])}})

\* The container open(emlx_path, 'rb') reads.
ContainerAt(entries, path) ==
    (CHOOSE e \in entries : e.path = path /\ ~e.dir).container

ContainersAt(entries, paths) ==
    [i \in 1..Len(paths) |-> ContainerAt(entries, paths[i])]

----------------------------------------------------------------------------
(* convert_folder *)

\* An assembly that always writes both terminators.
EntryTwoTerminators(from_line_str, escaped_content) ==
    EncodeUtf8(from_line_str) \o escaped_content \o <<NL, NL>>

\* Lines 182-186: the bytes one iteration appends for a message.
Entry(from_line_str, escaped_content) ==
    EncodeUtf8(from_line_str) \o escaped_content
    \o (IF EndsWith(escaped_content, <<NL>>) THEN <<>> ELSE <<NL>>)
    \o <<NL>>

\* Lines 179-187: the locals of an iteration that writes, and its bytes.
Wrote(email_content, from_line_str, escaped_content) ==
    [email_content   |-> email_content,
     from_line       |-> from_line_str,
     escaped_content |-> escaped_content,
     out             |-> Entry(from_line_str, escaped_content),
     counted         |-> 1]

Skipped(email_content) ==
    [email_content   |-> email_content,
     from_line       |-> <<>>,
     escaped_content |-> <<>>,
     out             |-> <<>>,
     counted         |-> 0]

\* Lines 178-187; `if email_content:` is false for None and for b''.
IterationOf(email_content, clock) ==
    IF email_content.some /\ email_content.val # <<>>
    THEN Wrote(email_content, GetFromLine(email_content.val, clock),
               EscapeFromLines(email_content.val))
    ELSE Skipped(email_content)

\* Lines 177-187: one iteration of the loop, as the values of its locals and
\* the bytes it appends.
Iteration(container, clock) == IterationOf(ParseEmlx(container), clock)

----------------------------------------------------------------------------
(* Inputs of convert_folder *)

MaxFiles == 2

\* An emlx container as Apple Mail writes it: the length of the content, a
\* newline, the content and the property list.
Emlx(content, plist) == Readable(Ascii(Len(content)) \o <<NL>> \o content \o plist)

Plist == <<"<", "?", "x", "m", "l">>

FromField == <<"F", "r", "o", "m", ":", " ">>

FolderContainers ==
    { \* From: a@b, a blank line and a body without a final newline
      Emlx(FromField \o <<"a", "@", "b", NL, NL, "B">>, Plist),
      \* a first line and a body line that begin with "From ", a sender with
      \* a space, one final newline
      Emlx(FromSpace \o <<"x", NL>> \o FromField \o <<"<", "a", " ", "b", ">", NL, NL>>
           \o FromSpace \o <<"m", "e", NL>>, <<>>),
      \* a content that ends with two newlines
      Emlx(<<"B", NL, NL>>, Plist),
      \* a content that is one newline
      Emlx(<<NL>>, <<>>),
      \* a content of no bytes
      Emlx(<<>>, Plist),
      \* no line terminator at all
      Readable(<<"j", "u", "n", "k">>),
      \* a file that cannot be read
      Unreadable,
      \* a first line that is no number; a header line broken inside '<' '>'
      Readable(<<"x", NL>> \o FromField \o <<"<", NL>> \o FromSpace \o <<"b", ">">>),
      \* a negative length
      Readable(<<"-", "1", NL, "B">>),
      \* a Date field
      Emlx(DateName \o <<" ">> \o ExampleDate \o <<NL, NL, "B", NL>>, Plist),
      \* invalid UTF-8 in the sender
      Emlx(FromField \o <<"x80", "@", "b", NL, NL, "B">>, <<>>),
      \* CRLF line terminators
      Emlx(FromField \o <<"a", "@", "b", CR, NL, CR, NL>> \o FromSpace \o <<"B", CR, NL>>,
           Plist) }

FolderListings == SeqsUpTo(FolderContainers, MaxFiles)

\* The paths of the containers beneath source_dir: 1.emlx, d/2.emlx,
\* d/e/3.partial.emlx and d-x/1.emlx ('-' sorts before '/').
EmlxPaths ==
    << << <<"1">> \o DotEmlx >>,
       << <<"d">>, <<"d">>, <<"e">>, <<"3">> \o DotPartialEmlx >>,
       << <<"d">>, <<"2">> \o DotEmlx >>,
       << <<"d", "-", "x">>, <<"1">> \o DotEmlx >> >>

\* What else lies beneath source_dir: other.txt, d/emlx, d/4.emlx.bak and a
\* directory z.emlx.
OtherEntries ==
    { FileEntry(<< <<"o", "t", "h", "e", "r", ".", "t", "x", "t">> >>, Readable(<<"x", NL>>)),
      FileEntry(<< <<"d">>, <<"e", "m", "l", "x">> >>, Readable(<<"1", NL, "B">>)),
      FileEntry(<< <<"d">>, <<"4">> \o DotEmlx \o <<".", "b", "a", "k">> >>,
                Readable(<<"1", NL, "B">>)),
      DirEntry(<< <<"z">> \o DotEmlx >>) }

\* The k-th smallest of a set of indices.
KthOf(I, k) == CHOOSE i \in I : Cardinality({j \in I : j < i}) = k - 1

\* The containers of a listing, each at one of the paths.
TreeOf(listing, I) ==
    {FileEntry(EmlxPaths[KthOf(I, k)], listing[k]) : k \in 1..Len(listing)}
    \cup OtherEntries

FolderTrees ==
    UNION {{TreeOf(listing, I) :
               I \in {J \in SUBSET (1..Len(EmlxPaths)) : Cardinality(J) = Len(listing)}} :
           listing \in FolderListings}
    \cup {{}}

OldMbox == <<"o", "l", "d", NL>>

Init ==
    /\ tree \in FolderTrees
    /\ mbox \in {None, Some(OldMbox)}
    /\ emlx_files = <<>> /\ files = <<>>
    /\ pc = "start" /\ idx = 0 /\ count = 0 /\ written = <<>>
    /\ first_run = None
    /\ now = ClockStart
    /\ ParseIdle
    /\ MessageIdle
    /\ AccountIdle

\* Lines 169-172: nothing found, return 0 without opening mbox_path.
ReturnEmpty ==
    /\ pc = "start"
    /\ FindEmlxFiles(tree) = <<>>
    /\ emlx_files' = <<>>
    /\ files' = <<>>
    /\ count' = 0
    /\ pc' = "done"
    /\ UNCHANGED <<tree, idx, mbox, written, first_run, now,
                   parseVars, messageVars, accountVars>>

\* Lines 169-175: the containers are listed and open(mbox_path, 'wb')
\* creates or truncates the file.
OpenMbox ==
    /\ pc = "start"
    /\ FindEmlxFiles(tree) # <<>>
    /\ emlx_files' = FindEmlxFiles(tree)
    /\ files' = ContainersAt(tree, FindEmlxFiles(tree))
    /\ mbox' = Some(<<>>)
    /\ count' = 0
    /\ idx' = 1
    /\ pc' = "loop"
    /\ UNCHANGED <<tree, written, first_run, now, parseVars, messageVars, accountVars>>

\* A loop that a container without content ends.
ConvertOneStopAtFailure ==
    /\ pc = "loop"
    /\ idx <= Len(emlx_files)
    /\ \E it \in {Iteration(ContainerAt(tree, emlx_files[idx]), now)} :
           /\ mbox' = Some(mbox.val \o it.out)
           /\ count' = count + it.counted
           /\ written' = Append(written, it)
           /\ idx' = IF it.counted = 0 THEN Len(emlx_files) + 1 ELSE idx + 1
    /\ UNCHANGED <<tree, emlx_files, files, pc, first_run, now,
                   parseVars, messageVars, accountVars>>

\* Lines 176-187: the iteration for emlx_files[idx].
ConvertOne ==
    /\ pc = "loop"
    /\ idx <= Len(emlx_files)
    /\ \E it \in {Iteration(ContainerAt(tree, emlx_files[idx]), now)} :
           /\ mbox' = Some(mbox.val \o it.out)
           /\ count' = count + it.counted
           /\ written' = Append(written, it)
    /\ idx' = idx + 1
    /\ UNCHANGED <<tree, emlx_files, files, pc, first_run, now,
                   parseVars, messageVars, accountVars>>

\* Line 189: the loop is over, the file is closed, count is returned.
ReturnCount ==
    /\ pc = "loop"
    /\ idx > Len(emlx_files)
    /\ pc' = "done"
    /\ UNCHANGED <<tree, emlx_files, files, idx, mbox, count, written, first_run, now,
                   parseVars, messageVars, accountVars>>

\* convert_folder is called again for the same source_dir and mbox_path,
\* nothing on disk having changed since it returned.
ConvertAgain ==
    /\ apc = "idle"
    /\ pc = "done"
    /\ first_run = None
    /\ first_run' = Some(mbox)
    /\ emlx_files' = <<>> /\ files' = <<>>
    /\ idx' = 0 /\ count' = 0 /\ written' = <<>>
    /\ pc' = "start"
    /\ UNCHANGED <<tree, mbox, now, parseVars, messageVars, accountVars>>

\* The wall clock advances while convert_folder runs and between calls.
Tick ==
    /\ pc \in {"start", "loop"}
    /\ now = ClockStart
    /\ now' = ClockLater
    /\ UNCHANGED <<parseVars, messageVars, folderVars, accountVars>>

Next == ReturnEmpty \/ OpenMbox \/ ConvertOne \/ ReturnCount \/ ConvertAgain \/ Tick

Spec == Init /\ [][Next]_vars

----------------------------------------------------------------------------
(* convert_account *)

DotMbox == <<".", "m", "b", "o", "x">>

\* The directories beneath source_dir: those entered as such and those the
\* paths of the entries lead through.
DirPaths(entries) ==
    UNION {{SubSeq(e.path, 1, k) :
               k \in 1..(IF e.dir THEN Len(e.path) ELSE Len(e.path) - 1)} :
           e \in entries}

\* The directories os.walk finds in the directory dir (<<>> is source_dir).
Children(entries, dir) ==
    {p \in DirPaths(entries) :
        Len(p) = Len(dir) + 1 /\ SubSeq(p, 1, Len(dir)) = dir}

\* The orders in which a directory may list the members of S.
Orders(S) ==
    {f \in [1..Cardinality(S) -> S] : \A i, j \in 1..Cardinality(S) : f[i] = f[j] => i = j}

\* Line 211: d.endswith('.mbox')
IsMboxDir(path) == EndsWith(path[Len(path)], DotMbox)

\* Lines 209-212: os.walk visits a directory, where the loop appends those
\* of its directories that end in .mbox, and then walks each of its
\* directories in turn. The order of a directory's members is the file
\* system's; every order is possible.
RECURSIVE WalkOrders(_, _)
RECURSIVE WalkEach(_, _, _)
WalkEach(entries, dirs, k) ==
    IF k > Len(dirs) THEN {<<>>}
    ELSE {a \o b : a \in WalkOrders(entries, dirs[k]), b \in WalkEach(entries, dirs, k + 1)}

WalkOrders(entries, dir) ==
    UNION {{SelectSeq(dirs, IsMboxDir) \o rest : rest \in WalkEach(entries, dirs, 1)} :
           dirs \in Orders(Children(entries, dir))}

\* The entries beneath the directory dir, by their paths relative to it.
Beneath(entries, dir) ==
    {[path |-> SubSeq(e.path, Len(dir) + 1, Len(e.path)),
      dir |-> e.dir, container |-> e.container] :
        e \in {x \in entries :
                  Len(x.path) > Len(dir) /\ SubSeq(x.path, 1, Len(dir)) = dir}}

\* s.replace(c, '') for each c of chars.
Without(s, chars) == SelectSeq(s, LAMBDA c : c \notin chars)

\* s.replace(old, new) of single characters.
ReplaceChar(s, old, new) == [i \in 1..Len(s) |-> IF s[i] = old THEN new ELSE s[i]]

\* \w of a str pattern: letters (of any script: "uE9" stands for those
\* beyond ASCII), digits and '_'.
WordChars ==
    ({OrderedChars[i] : i \in 5..Len(OrderedChars)} \ {"[", "]"}) \cup {"uE9"}

\* re.sub(r'[^\w\-_]', '_', s)
SubUnsafe(s) ==
    [i \in 1..Len(s) |-> IF s[i] \in WordChars \cup {"-", "_"} THEN s[i] ELSE "_"]

\* Line 212: d[:-5]
FolderName(d) == SubSeq(d, 1, Len(d) - 5)

\* Lines 216-217: the name of the folder made safe.
CleanName(folder_name) ==
    SubUnsafe(ReplaceChar(Without(folder_name, {"[", "]"}), " ", "_"))

\* s.replace('.mbox', ''): every occurrence is removed, from the left.
RECURSIVE RemoveDotMbox(_)
RemoveDotMbox(s) ==
    IF Len(s) < Len(DotMbox) THEN s
    ELSE IF SubSeq(s, 1, Len(DotMbox)) = DotMbox
         THEN RemoveDotMbox(SubSeq(s, Len(DotMbox) + 1, Len(s)))
         ELSE <<Head(s)>> \o RemoveDotMbox(Tail(s))

\* Lines 223-224: the first name of rel_path made safe.
ParentName(first) == SubUnsafe(Without(RemoveDotMbox(first), {"[", "]"}))

\* Lines 212-225: clean_name of the folder at rel_path; '/' is in rel_path
\* when it has more than one name.
OutputName(rel_path) ==
    IF Len(rel_path) > 1
    THEN ParentName(rel_path[1]) \o <<"_">> \o CleanName(FolderName(rel_path[Len(rel_path)]))
    ELSE CleanName(FolderName(rel_path[Len(rel_path)]))

\* A directory of files by name, and a dict by key.
Named(name, data) == [name |-> name, data |-> data]
Has(dir, name) == \E f \in dir : f.name = name
Get(dir, name) == (CHOOSE f \in dir : f.name = name).data
Drop(dir, name) == {f \in dir : f.name # name}
Put(dir, name, data) == Drop(dir, name) \cup {Named(name, data)}

\* Lines 202-212: output_dir is made, email_counts is empty, the .mbox
\* directories beneath source_dir are collected.
ListFolders ==
    /\ apc = "start"
    /\ mbox_folders' \in WalkOrders(source, <<>>)
    /\ email_counts' = {}
    /\ fidx' = 1
    /\ apc' = "loop"
    /\ UNCHANGED <<source, output_dir, clean_name, results, now,
                   parseVars, messageVars, folderVars>>

\* Lines 214-232: the name and mbox_path of the next folder are derived and
\* convert_folder is called for it.
BeginFolder ==
    /\ apc = "loop"
    /\ pc = "idle"
    /\ fidx <= Len(mbox_folders)
    /\ clean_name' = OutputName(mbox_folders[fidx])
    /\ tree' = Beneath(source, mbox_folders[fidx])
    /\ mbox' = IF Has(output_dir, OutputName(mbox_folders[fidx]))
               THEN Some(Get(output_dir, OutputName(mbox_folders[fidx])))
               ELSE None
    /\ emlx_files' = <<>> /\ files' = <<>>
    /\ idx' = 0 /\ count' = 0 /\ written' = <<>>
    /\ pc' = "start"
    /\ UNCHANGED <<first_run, source, mbox_folders, output_dir, email_counts,
                   apc, fidx, results, now, parseVars, messageVars>>

\* What a folder gave: its path, its name, the count convert_folder returned
\* and what its iterations wrote.
Result(folder, name, n, iterations) ==
    [folder |-> folder, name |-> name, count |-> n, written |-> iterations]

\* Lines 232-243: convert_folder has returned; a count above 0 is entered
\* under clean_name, otherwise the file at mbox_path is removed if there is
\* one.
EndFolder ==
    /\ apc = "loop"
    /\ pc = "done"
    /\ IF count > 0
       THEN /\ email_counts' = Put(email_counts, clean_name, count)
            /\ output_dir' = Put(output_dir, clean_name, mbox.val)
       ELSE /\ email_counts' = email_counts
            /\ output_dir' = Drop(output_dir, clean_name)
    /\ results' = Append(results, Result(mbox_folders[fidx], clean_name, count, written))
    /\ fidx' = fidx + 1
    /\ pc' = "idle"
    /\ UNCHANGED <<tree, emlx_files, files, idx, mbox, count, written, first_run,
                   source, mbox_folders, apc, clean_name, now, parseVars, messageVars>>

\* Line 245: return email_counts
ReturnCounts ==
    /\ apc = "loop"
    /\ pc = "idle"
    /\ fidx > Len(mbox_folders)
    /\ apc' = "done"
    /\ UNCHANGED <<source, mbox_folders, output_dir, email_counts, fidx, clean_name,
                   results, now, parseVars, messageVars, folderVars>>

NextAccount ==
    \/ ListFolders \/ BeginFolder
    \/ ReturnEmpty \/ OpenMbox \/ ConvertOne \/ ReturnCount
    \/ EndFolder \/ ReturnCounts

----------------------------------------------------------------------------
(* Inputs of convert_account *)

MaxFolders == 2

InboxMbox == <<"I", "n", "b", "o", "x">> \o DotMbox

\* The .mbox directories an account may hold, by their paths beneath
\* source_dir: Inbox.mbox, "A B.mbox", A+B.mbox, Acct/X/Inbox.mbox,
\* Acct/Y/Inbox.mbox, "a.mbox.d/[Gmail] Sent.mbox" and Inbox.mbox/Sub.mbox.
AccountFolders ==
    << <<InboxMbox>>,
       << <<"A", " ", "B">> \o DotMbox >>,
       << <<"A", "+", "B">> \o DotMbox >>,
       << <<"A", "c", "c", "t">>, <<"X">>, InboxMbox >>,
       << <<"A", "c", "c", "t">>, <<"Y">>, InboxMbox >>,
       << <<"a">> \o DotMbox \o <<".", "d">>,
          <<"[", "G", "m", "a", "i", "l", "]", " ", "S", "e", "n", "t">> \o DotMbox >>,
       << InboxMbox, <<"S", "u", "b">> \o DotMbox >> >>

Messages == <<"M", "e", "s", "s", "a", "g", "e", "s">>

\* What a folder holds: nothing; one container that does not decode; a
\* container with a sender, one that cannot be read and one without header
\* fields.
NoFiles == {}

OnlyBad == {FileEntry(<<Messages, <<"1">> \o DotEmlx>>, Readable(<<"j", "u", "n", "k">>))}

Mixed ==
    { FileEntry(<<Messages, <<"1">> \o DotEmlx>>,
                Emlx(FromField \o <<"a", "@", "b", NL, NL, "B">>, Plist)),
      FileEntry(<<Messages, <<"2">> \o DotEmlx>>, Unreadable),
      FileEntry(<<Messages, <<"3">> \o DotPartialEmlx>>, Emlx(<<"B", NL>>, Plist)) }

FolderKinds == {NoFiles, OnlyBad, Mixed}

\* The folder at path with the files of kind in it.
FolderAt(path, kind) ==
    {DirEntry(path)} \cup {FileEntry(path \o e.path, e.container) : e \in kind}

\* The accounts: up to MaxFolders of the folders, each of some kind.
AccountTrees ==
    UNION {{UNION {FolderAt(AccountFolders[k], kinds[k]) : k \in S} :
               kinds \in [S -> FolderKinds]} :
           S \in {T \in SUBSET (1..Len(AccountFolders)) : Cardinality(T) <= MaxFolders}}

\* output_dir before the pass: empty, or with files left by an earlier one.
OutputDirs ==
    { {},
      { Named(OutputName(AccountFolders[1]), OldMbox),
        Named(OutputName(AccountFolders[2]), OldMbox) } }

InitAccount ==
    /\ source \in AccountTrees
    /\ output_dir \in OutputDirs
    /\ mbox_folders = <<>> /\ email_counts = {}
    /\ apc = "start" /\ fidx = 0 /\ clean_name = <<>> /\ results = <<>>
    /\ FolderIdle
    /\ now = ClockStart
    /\ ParseIdle
    /\ MessageIdle

SpecAccount == InitAccount /\ [][NextAccount]_vars

----------------------------------------------------------------------------
(* Claims about convert_folder *)

\* mbox_path has been opened by this call.
Opened == pc \in {"loop", "done"} /\ files # <<>>

\* The bytes the first k iterations appended.
RECURSIVE WrittenBytes(_)
WrittenBytes(k) == IF k = 0 THEN <<>> ELSE WrittenBytes(k - 1) \o written[k].out

\* The container has no line terminator anywhere or cannot be read.
Undecodable(container) ==
    ~container.readable \/ \A i \in 1..Len(container.data) : container.data[i] # NL

\* C4: a container with no line terminator anywhere, or whose bytes cannot
\* be read, yields None from parse_emlx; convert_folder then writes nothing
\* for it and does not count it, and goes on with the containers after it.
C4_UndecodableSkipped ==
    Opened =>
        /\ Len(written) = idx - 1
        /\ mbox = Some(WrittenBytes(Len(written)))
        /\ \A i \in 1..Len(written) :
              Undecodable(files[i]) =>
                  /\ written[i].email_content = None
                  /\ written[i].out = <<>>
                  /\ written[i].counted = 0

\* C4 witness: convert_folder has returned after a container that cannot be
\* read, followed by one without a line terminator, and wrote nothing.
C4_Witness ==
    /\ pc = "done" /\ Len(files) = 2
    /\ ~files[1].readable
    /\ files[2].readable /\ Undecodable(files[2])
    /\ mbox = Some(<<>>) /\ count = 0

\* The positions of the output file at which a line begins with "From ".
FromLineStarts(bytes) ==
    {p \in 1..Len(bytes) :
        /\ p = 1 \/ bytes[p - 1] = NL
        /\ p + 4 <= Len(bytes)
        /\ SubSeq(bytes, p, p + 4) = FromSpace}

\* The positions at which the entries of the file begin.
EntryStarts ==
    {Len(WrittenBytes(i - 1)) + 1 : i \in {k \in 1..Len(written) : written[k].counted = 1}}

\* The line of the file that begins at position p, with its terminator.
LineAt(bytes, p) ==
    SubSeq(bytes, p, Least({q \in p..Len(bytes) : bytes[q] = NL} \cup {Len(bytes)}))

\* C9: in the file convert_folder writes, the lines that begin with "From "
\* are exactly the envelope lines of the entries, one per entry, so their
\* number is the count; each envelope line is in the file as get_from_line
\* returned it, not escaped.
C9_OnlyEnvelopesBeginWithFrom ==
    Opened =>
        /\ FromLineStarts(mbox.val) = EntryStarts
        /\ Cardinality(FromLineStarts(mbox.val)) = count
        /\ \A i \in 1..Len(written) :
              written[i].counted = 1 =>
                  LineAt(mbox.val, Len(WrittenBytes(i - 1)) + 1)
                      = EncodeUtf8(written[i].from_line)

\* C9 witness: convert_folder has returned 2 for two messages, one of which
\* has lines that begin with "From ", in the header and in the body.
C9_Witness ==
    /\ pc = "done" /\ count = 2
    /\ \E i \in 1..2 :
          Len(written[i].escaped_content) = Len(written[i].email_content.val) + 2

\* The number of line terminators bytes ends with.
RECURSIVE TrailingNewlines(_)
TrailingNewlines(bytes) ==
    IF bytes # <<>> /\ bytes[Len(bytes)] = NL
    THEN 1 + TrailingNewlines(SubSeq(bytes, 1, Len(bytes) - 1))
    ELSE 0

\* C10: the entry of a message is the envelope line, the escaped content, a
\* line terminator only if the escaped content does not end with one, and
\* one line terminator: after the terminated content the entry holds exactly
\* one blank line, and the envelope line of the next entry follows it.
C10_EntrySeparation ==
    Opened =>
        \A i \in 1..Len(written) :
            written[i].counted = 1 =>
                LET env  == EncodeUtf8(written[i].from_line)
                    body == written[i].escaped_content
                    out  == written[i].out
                    rest == SubSeq(out, Len(env) + Len(body) + 1, Len(out))
                    next == Len(WrittenBytes(i)) + 1
                IN  /\ SubSeq(out, 1, Len(env)) = env
                    /\ SubSeq(out, Len(env) + 1, Len(env) + Len(body)) = body
                    /\ rest = IF body[Len(body)] = NL THEN <<NL>> ELSE <<NL, NL>>
                    /\ TrailingNewlines(body \o rest) = Max(TrailingNewlines(body), 1) + 1
                    /\ SubSeq(mbox.val, next - Len(out), next - 1) = out
                    /\ next <= Len(mbox.val) => next \in FromLineStarts(mbox.val)

\* C10 witness: convert_folder has written an entry for a content that ends
\* without a line terminator and, after it, one for a content that ends with
\* one.
C10_Witness ==
    /\ pc = "done" /\ count = 2
    /\ TrailingNewlines(written[1].escaped_content) = 0
    /\ TrailingNewlines(written[2].escaped_content) = 1
    /\ TrailingNewlines(mbox.val) = 2

\* C12: whenever convert_folder returns 0 (no .emlx files, or .emlx files
\* none of which yields a message) no file that the call created is at
\* mbox_path: an empty container is never what the call leaves there.
C12_NoEmptyContainerLeft ==
    (pc = "done" /\ count = 0) => mbox # Some(<<>>)

\* C13: converting the same folder twice with nothing on disk changed gives
\* byte-identical output both times, whatever the folder holds and whatever
\* the wall-clock time of each run.
C13_SameOutputTwice ==
    (pc = "done" /\ first_run.some) => mbox = first_run.val

\* a < b of two str, character by character.
RECURSIVE LexBefore(_, _)
LexBefore(a, b) ==
    IF a = <<>> THEN b # <<>>
    ELSE IF b = <<>> THEN FALSE
    ELSE IF Head(a) = Head(b) THEN LexBefore(Tail(a), Tail(b))
    ELSE CodeRank(Head(a)) < CodeRank(Head(b))

\* The paths of the files beneath source_dir whose name ends in ".emlx".
EmlxFilesBeneath ==
    {e.path : e \in {x \in tree :
        /\ ~x.dir
        /\ LET name == x.path[Len(x.path)]
           IN  Len(name) >= 5 /\ SubSeq(name, Len(name) - 4, Len(name)) = DotEmlx}}

Listed == pc \in {"loop", "done"}

\* C14: find_emlx_files returns every file at any depth beneath the
\* directory whose name ends in ".emlx" (".partial.emlx" included), each
\* once and no other file, sorted by full path as str; convert_folder reads
\* and appends in that order, so of two converted containers the one with
\* the smaller path is earlier in the file.
C14_DiscoveryAndOrder ==
    Listed =>
        /\ {emlx_files[i] : i \in 1..Len(emlx_files)} = EmlxFilesBeneath
        /\ Len(emlx_files) = Cardinality(EmlxFilesBeneath)
        /\ \A i, j \in 1..Len(emlx_files) :
              i < j => LexBefore(JoinPath(emlx_files[i]), JoinPath(emlx_files[j]))
        /\ \A i \in 1..Len(written) :
              written[i].email_content = ParseEmlx(ContainerAt(tree, emlx_files[i]))
        /\ Len(emlx_files) > 0 => mbox = Some(WrittenBytes(Len(written)))
        /\ \A i, j \in 1..Len(written) :
              (i < j /\ written[i].counted = 1 /\ written[j].counted = 1)
                  => Len(WrittenBytes(i - 1)) < Len(WrittenBytes(j - 1))

\* C14 witness: convert_folder has converted d-x/1.emlx and then d/2.emlx,
\* with other files and a directory named z.emlx beneath source_dir.
C14_Witness ==
    /\ pc = "done" /\ count = 2
    /\ emlx_files = <<EmlxPaths[4], EmlxPaths[3]>>
    /\ Cardinality(tree) > 2

\* The decode of the container succeeds: its bytes can be read and hold a
\* line terminator.
Decodable(container) == ~Undecodable(container)

\* C20: every container whose decode succeeds, one with zero-length content
\* included, gives exactly one appended entry, so the count convert_folder
\* returns is the number of decodable containers.
C20_OneEntryPerDecoded ==
    (pc = "done" /\ emlx_files # <<>>) =>
        /\ \A i \in 1..Len(written) :
              Decodable(files[i]) => written[i].counted = 1
        /\ count = Cardinality({i \in 1..Len(files) : Decodable(files[i])})

----------------------------------------------------------------------------
(* Claims about convert_account *)

\* The FolderUnits: the directories beneath source_dir named *.mbox.
FolderUnits == {p \in DirPaths(source) : IsMboxDir(p)}

\* S(x) of the specification: the suffix ".mbox" stripped from the end of x,
\* brackets removed, spaces replaced by '_', every character outside word
\* characters, '-' and '_' replaced by '_'.
StripSuffix(x) == IF EndsWith(x, DotMbox) THEN SubSeq(x, 1, Len(x) - Len(DotMbox)) ELSE x

SafeName(x) ==
    [i \in 1..Len(Without(StripSuffix(x), {"[", "]"})) |->
        LET c == Without(StripSuffix(x), {"[", "]"})[i]
        IN  IF c \in WordChars \cup {"-"} THEN c ELSE "_"]

SpecifiedName(path) ==
    IF Len(path) = 1 THEN SafeName(path[1])
    ELSE SafeName(path[1]) \o <<"_">> \o SafeName(path[Len(path)])

\* C16: the output name of a FolderUnit is S(leaf) when its path relative to
\* source_dir has one name and S(first name) + "_" + S(leaf) when it has
\* more, and holds only word characters, '-' and '_'.
C16_OutputNameDerivation ==
    \A k \in 1..Len(results) :
        /\ results[k].name = SpecifiedName(results[k].folder)
        /\ \A i \in 1..Len(results[k].name) : results[k].name[i] \in WordChars \cup {"-"}

\* The bytes the iterations of a folder appended.
BytesOf(iterations) == Concat([i \in 1..Len(iterations) |-> iterations[i].out])

\* C15: within one pass two distinct FolderUnits never get the same output
\* file, so when the pass returns the file of every FolderUnit that gave
\* messages holds what that FolderUnit wrote.
C15_DisjointOutputs ==
    /\ \A i, j \in 1..Len(results) :
          i # j => results[i].name # results[j].name
    /\ apc = "done" =>
          \A k \in 1..Len(results) :
              results[k].count > 0 =>
                  /\ Has(output_dir, results[k].name)
                  /\ Get(output_dir, results[k].name) = BytesOf(results[k].written)

\* C11: when convert_account has returned, a FolderUnit that gave no
\* converted message has no output file, whether or not a file of that name
\* was there before, and its name is not a key of the mapping.
C11_EmptyFolderElision ==
    apc = "done" =>
        \A k \in 1..Len(results) :
            results[k].count = 0 =>
                /\ ~Has(output_dir, results[k].name)
                /\ ~Has(email_counts, results[k].name)

\* The containers of the FolderUnit at folder: the files beneath it named
\* *.emlx.
ContainersOf(folder) ==
    {e \in Beneath(source, folder) :
        ~e.dir /\ EndsWith(e.path[Len(e.path)], DotEmlx)}

\* The container gives content to convert.
Converts(container) ==
    ParseEmlx(container).some /\ ParseEmlx(container).val # <<>>

\* Every container of the folder was handled, and each that gives content
\* was converted and counted, whatever the others did.
FolderConverted(r) ==
    /\ Len(r.written) = Cardinality(ContainersOf(r.folder))
    /\ \A e \in ContainersOf(r.folder) :
          Converts(e.container) =>
              \E i \in 1..Len(r.written) :
                  /\ r.written[i].email_content = ParseEmlx(e.container)
                  /\ r.written[i].counted = 1
                  /\ r.written[i].out # <<>>
    /\ r.count = Cardinality({e \in ContainersOf(r.folder) : Converts(e.container)})

\* A step of the pass can be taken: one of the steps of convert_account or
\* the return of convert_folder is enabled, or convert_folder is at line 169
\* (one of the two outcomes of line 171 follows), or it is in its loop with
\* a container to read and the file open.
CanStep ==
    \/ ENABLED (ListFolders \/ BeginFolder \/ ReturnCount \/ EndFolder \/ ReturnCounts)
    \/ pc = "start"
    \/ /\ pc = "loop" /\ idx <= Len(emlx_files) /\ mbox.some
       /\ \E e \in tree : ~e.dir /\ e.path = emlx_files[idx]

\* The steps convert_folder has left at most, and those of the pass.
FolderSteps == Cardinality(source) + 4

FolderRemaining ==
    CASE pc = "idle"  -> FolderSteps - 1
      [] pc = "start" -> FolderSteps - 2
      [] pc = "loop"  -> FolderSteps - 2 - idx
      [] pc = "done"  -> 0

Remaining ==
    CASE apc = "start" -> (Cardinality(DirPaths(source)) + 2) * FolderSteps
      [] apc = "loop"  -> 1 + (Len(mbox_folders) + 1 - fidx) * FolderSteps + FolderRemaining
      [] apc = "done"  -> 0

\* What holds of the folders converted so far and of the mapping.
Isolated ==
    /\ apc # "done" => CanStep
    /\ Remaining >= 0
    /\ \A k \in 1..Len(results) :
          /\ FolderConverted(results[k])
          /\ results[k].count > 0 => Has(email_counts, results[k].name)
    /\ \A c \in email_counts :
          \E k \in 1..Len(results) :
              results[k].name = c.name /\ results[k].count = c.data
    /\ apc = "done" =>
          /\ {results[k].folder : k \in 1..Len(results)} = FolderUnits
          /\ Len(results) = Cardinality(FolderUnits)

\* C17: a container that does not decode, or a message without usable header
\* fields, ends neither the folder nor the pass: until the pass has returned
\* a step can be taken and every step brings the return nearer, every other
\* container of the folder is converted and counted, every FolderUnit is
\* converted once, and each that gave messages is entered in the mapping
\* convert_account returns.
C17_FailureIsolation == []Isolated /\ [][Remaining' < Remaining]_vars

\* C17 witness: the pass has returned after a folder whose only container
\* does not decode and a folder whose second container of three cannot be
\* read; the second folder gave 2 messages and is in the mapping.
C17_Witness ==
    /\ apc = "done" /\ Len(results) = 2
    /\ Len(results[1].written) = 1 /\ results[1].count = 0
    /\ Len(results[2].written) = 3 /\ results[2].count = 2
    /\ results[2].written[2].counted = 0
    /\ results[2].written[3].counted = 1
    /\ Has(email_counts, results[2].name)
    /\ results[1].name # results[2].name

\* The output names of the FolderUnits of the pass.
OutputNames == {results[k].name : k \in 1..Len(results)}

\* C21: when convert_account has returned, an output name is a key of the
\* mapping exactly when its file is in output_dir, and the count under it is
\* positive and is the number of entries of that file.
C21_MappingAgreesWithDisk ==
    apc = "done" =>
        /\ \A n \in OutputNames : Has(email_counts, n) <=> Has(output_dir, n)
        /\ \A c \in email_counts :
              /\ c.data > 0
              /\ Has(output_dir, c.name) =>
                    c.data = Cardinality(FromLineStarts(Get(output_dir, c.name)))

\* The containers beneath source_dir: the files named *.emlx.
SourceContainers ==
    {e \in source : ~e.dir /\ EndsWith(e.path[Len(e.path)], DotEmlx)}

\* The path lies beneath the directory.
IsUnder(path, dir) ==
    Len(path) > Len(dir) /\ SubSeq(path, 1, Len(dir)) = dir

\* The sum of the counts of a mapping.
RECURSIVE SumCounts(_)
SumCounts(counts) ==
    IF counts = {} THEN 0
    ELSE LET c == CHOOSE x \in counts : TRUE
         IN  c.data + SumCounts(counts \ {c})

\* C22: within one pass a container is converted for at most one FolderUnit,
\* also when a .mbox folder lies inside another, so the counts of the mapping
\* sum to no more than the number of .emlx files beneath source_dir.
C22_NoDuplicatedMessages ==
    apc = "done" =>
        /\ \A e \in SourceContainers :
              Converts(e.container) =>
                  Cardinality({k \in 1..Len(results) :
                                  IsUnder(e.path, results[k].folder)}) <= 1
        /\ SumCounts(email_counts) <= Cardinality(SourceContainers)

====
